---- MODULE Spec2Model ----
(***************************************************************************)
(* A model of entigorm: the deferred query / transaction engine of the     *)
(* last variant of the builder (src/entity.go, second file body, lines     *)
(* 313-825) and the Clause builder it renders (src/unnamed/part_003, type  *)
(* Clause).  The state is the builder the caller has in hand, a second     *)
(* builder it keeps aside, the Clauses it holds, the store's transaction   *)
(* handles and the Transaction values handed between builders.             *)
(*                                                                         *)
(* The store (gorm) is an external collaborator: every call the builder    *)
(* makes on it is recorded in `calls` and its outcome (nil or an error) is *)
(* a nondeterministic input.                                               *)
(*                                                                         *)
(* Spec is the transaction engine; SpecClause the Clause builder alone     *)
(* and SpecPair two Clauses side by side; SpecShape, SpecBuilders,         *)
(* SpecReplay and SpecRender the scope list: all shaping methods, two      *)
(* builders, replayed terminal calls, and Clauses that change while        *)
(* attached; SpecJoin the join resolver, SpecArg Join given a Clause other *)
(* than the attached one and SpecResolve join conditions over every        *)
(* comparison operator; SpecBatch and SpecRows batch inserts and raw       *)
(* statements that yield rows; SpecToggle the ordering methods of the      *)
(* toggle-based variants (src/entity.go, first file body).                 *)
(***************************************************************************)
EXTENDS Integers, Sequences, FiniteSets, TLC

(***************************************************************************)
(* Bounds.                                                                 *)
(***************************************************************************)
\* the longest scope list a builder accumulates
MaxScopes == 2

\* the longest list of entities the caller passes to InsertBatch
MaxBatch == 2

\* the most rows a raw statement yields
MaxRows == 2

\* the most Order calls a builder of the toggle-based variants makes
MaxOrders == 3

\* the transaction handles db.Begin() hands out in one behaviour, in order
HandleSeq == <<"h1">>

Handles == {HandleSeq[i] : i \in 1..Len(HandleSeq)}

\* e.transaction.tx == nil
NoTx == "nil"

\* the process-wide default handle `db`
DefaultDB == "db"

(***************************************************************************)
(* Go error values.  A plain error (errors.New, a driver error) has no     *)
(* Unwrap method; a wrapping error (fmt.Errorf with %w) has                *)
(* Unwrap() error; errors.Join builds a value with Unwrap() []error.       *)
(***************************************************************************)
Nil == [kind |-> "nil", id |-> 0, subs |-> <<>>]

Plain(i) == [kind |-> "plain", id |-> i, subs |-> <<>>]

Wrap(i, inner) == [kind |-> "wrap", id |-> i, subs |-> <<inner>>]

\* the errors the store can answer a call with: two plain ones and one that
\* wraps a cause
StoreErrors == {Plain(1), Plain(2), Wrap(3, Plain(9))}

\* the outcome of one store call
Outcomes == {Nil} \cup StoreErrors

\* errors.Unwrap(err): the result of err's Unwrap() error method, nil when
\* err is nil or has none (a joined error only has Unwrap() []error)
Unwrap(err) == IF err.kind = "wrap" THEN err.subs[1] ELSE Nil

\* errors.Join(a, b): nil values are discarded, nil when none is left
ErrJoin(a, b) ==
    LET kept == SelectSeq(<<a, b>>, LAMBDA x : x # Nil)
    IN  IF kept = <<>> THEN Nil
        ELSE [kind |-> "join", id |-> 0, subs |-> kept]

\* errors.Is(err, target): err exposes target somewhere in its tree
RECURSIVE Is(_, _)
Is(err, target) ==
    \/ err = target
    \/ /\ err.kind \in {"wrap", "join"}
       /\ \E i \in 1..Len(err.subs) : Is(err.subs[i], target)

(***************************************************************************)
(* The Clause builder (src/unnamed/part_003, type Clause).  Go strings are *)
(* sequences of characters, so that concatenation, prefixes and separators *)
(* are what the code makes them.                                           *)
(***************************************************************************)
EQOperator == <<"=">>

GTOperator == <<">">>

GTEOperator == <<">", "=">>

LTOperator == <<"<">>

LTEOperator == <<"<", "=">>

INOperator == <<"I", "N">>

LikeOperator == <<"L", "I", "K", "E">>

BetWeen == <<"B", "E", "T", "W", "E", "E", "N">>

NOTOperator == <<"N", "O", "T", " ">>

OROperator == <<"O", "R", " ">>

ANDOperator == <<"A", "N", "D", " ">>

ASCOperator == <<" ", "A", "S", "C">>

DESCOperator == <<" ", "D", "E", "S", "C">>

\* the longest predicate list a Clause accumulates
MaxPreds == 2

\* the longest predicate list of a Clause when two Clauses are built side by
\* side
MaxPairPreds == 1

\* the Clause values of a behaviour: the builder's own one, made by SQL(ent),
\* and the ones the caller makes
OwnClause == "c0"

CallerClauses == {"c1", "c2"}

ClauseIds == {OwnClause} \cup CallerClauses

\* the column names the caller passes
Fields == {<<"i", "d">>}

\* the lengths of the lists the caller passes to IN
ListLens == {0, 2}

\* &Clause{builder: make([]Builer, 0)}, new(Clause)
EmptyClause == [builder |-> <<>>, not |-> FALSE]

\* the Builer entry of makeWhereClause(operator, field, value)
makeWhereClause(operator, field, value) ==
    [key |-> field, value |-> value, operator |-> operator, nextBoolOP |-> <<>>]

\* a segment whose connective follows the "?" with no space between them
Segment_Tight(b) ==
    b.key \o <<" ">> \o b.operator \o <<" ", "?">> \o b.nextBoolOP

\* fmt.Sprintf("%s %s ?", key, operator), then " " + nextBoolOP if one is set
Segment(b) ==
    b.key \o <<" ">> \o b.operator \o <<" ", "?">>
        \o (IF Len(b.nextBoolOP) > 0 THEN <<" ">> \o b.nextBoolOP ELSE <<>>)

\* the loop of Clause.ToSQL over the first n entries: the fragment so far
RECURSIVE WhereOf(_, _)
WhereOf(builder, n) ==
    IF n = 0 THEN <<>> ELSE WhereOf(builder, n - 1) \o Segment(builder[n])

\* a ToSQL() that binds the values last entry first
ClauseToSQL_Reversed(w) ==
    <<WhereOf(w.builder, Len(w.builder))>>
        \o [i \in 1..Len(w.builder) |-> w.builder[Len(w.builder) + 1 - i].value]

\* w.ToSQL(): the fragment at index 1, the entries' values after it
ClauseToSQL_NoSlot(w) ==
    IF w.builder = <<>>
    THEN <<>>
    ELSE <<WhereOf(w.builder, Len(w.builder))>>
             \o [i \in 1..Len(w.builder) |-> w.builder[i].value]

ClauseToSQL(w) ==
    <<WhereOf(w.builder, Len(w.builder))>>
        \o [i \in 1..Len(w.builder) |-> w.builder[i].value]

(***************************************************************************)
(* State.                                                                  *)
(***************************************************************************)
VARIABLES
    scopes,     \* e.transaction.scopes
    tx,         \* e.transaction.tx: NoTx or a handle
    commit,     \* e.transaction.commit
    savePoint,  \* e.transaction.savePoint
    error,      \* e.error
    handles,    \* the store: the status of every transaction handle
    own,        \* the caller holds this builder's Transaction (from a *Tx call)
    held,       \* handles of the Transactions the caller holds from earlier builders
    calls,      \* the store calls the last operation made, in order
    last,       \* the last operation: its name, what it returned, the state before it
    clause,     \* e.clause: the Clause the builder points at
    hasMany,    \* e.hasMany
    parked,     \* the fields of a second builder the caller keeps aside
    eager,      \* the ordering fields of a builder of the toggle-based variants
    clauses,    \* the Clause values the caller and the builders hold
    given,      \* for every Clause, the comparison calls made on it, in order
    clog        \* the last call made on a Clause, and what it returned

\* the Clause side of the state
cvars == <<clauses, given, clog>>

\* the builder side of the state
bvars == <<scopes, tx, commit, savePoint, error, handles, own, held, calls,
           last, clause, hasMany, parked, eager>>

vars == <<scopes, tx, commit, savePoint, error, handles, own, held, calls,
          last, clause, hasMany, parked, eager, clauses, given, clog>>

(***************************************************************************)
(* Entities and the statements a scope list builds.                        *)
(***************************************************************************)
\* the entity the builder is made for: its Go type name and its TableName()
Order == [type |-> <<"O", "r", "d", "e", "r">>,
          table |-> <<"o", "r", "d", "e", "r", "s">>]

\* an entity the caller passes to Join
Item == [type |-> <<"I", "t", "e", "m">>,
         table |-> <<"i", "t", "e", "m", "s">>]

\* cases.Title(language.English, cases.NoLower) on a one-word name: the first
\* letter in upper case, the rest as it is
Title(name) ==
    LET upper == [c \in {"o", "i"} |-> IF c = "o" THEN "O" ELSE "I"]
    IN  IF Len(name) > 0 /\ name[1] \in DOMAIN upper
        THEN <<upper[name[1]]>> \o Tail(name)
        ELSE name

\* an e.ToSQL() that adds what the Clause renders even when it is empty
EntityToSQL_Always(ent, many, w) ==
    LET table == IF many THEN Title(ent.table) ELSE ent.type
    IN  <<table>> \o ClauseToSQL(w)

\* e.ToSQL() of a builder for entity ent with the given hasMany and Clause:
\* the table name, then the Clause's fragment and values if it has any
EntityToSQL(ent, many, w) ==
    LET table == IF many THEN Title(ent.table) ELSE ent.type
    IN  <<table>> \o (IF Len(ClauseToSQL(w)) > 1 THEN ClauseToSQL(w) ELSE <<>>)

\* what gorm is asked to do when one scope of the list is applied: the gorm
\* method, its query argument and its further arguments.  The closure of
\* Where reads the Clause it was given, the closure of Having reads e.clause,
\* both when the list is applied.
ApplyScope(s) ==
    CASE s.kind = "Where" ->
            LET args == ClauseToSQL(clauses[s.arg])
            IN  IF Len(args) > 1
                THEN [fn |-> "Where", query |-> args[1], args |-> Tail(args)]
                ELSE IF Len(args) > 0
                THEN [fn |-> "Where", query |-> args[1], args |-> <<>>]
                ELSE [fn |-> "nil", query |-> <<>>, args |-> <<>>]
      [] s.kind = "Having" ->
            [fn |-> "Having", query |-> ClauseToSQL(clauses[clause]),
             args |-> <<>>]
      [] s.kind = "OrderBy" ->
            [fn |-> "Order",
             query |-> s.name \o (IF s.ascending
                                  THEN <<" ", "A", "S", "C", " ">>
                                  ELSE <<" ", "D", "E", "S", "C", " ">>),
             args |-> <<>>]
      [] s.kind = "Select" -> [fn |-> "Select", query |-> s.cols, args |-> <<>>]
      [] s.kind = "Offset" -> [fn |-> "Offset", query |-> s.value, args |-> <<>>]
      [] s.kind = "Limit" -> [fn |-> "Limit", query |-> s.value, args |-> <<>>]
      [] s.kind = "GroupBy" -> [fn |-> "Group", query |-> s.name, args |-> <<>>]
      [] s.kind = "Joins" ->
            [fn |-> "Joins", query |-> s.table,
             args |-> <<[fn |-> "Where", query |-> s.stmt,
                         args |-> <<s.vals>>]>>]
      [] s.kind = "Preload" ->
            [fn |-> "Preload", query |-> s.table, args |-> <<>>]

\* db.Scopes(list...): the scopes applied one after the other
ApplyScopes(list) == [i \in 1..Len(list) |-> ApplyScope(list[i])]

\* what the store answers a call on a handle of status st: a handle that was
\* committed or rolled back is finished and refuses every further call
StoreOutcomes(st) ==
    IF st \in {"committed", "rolledback"} THEN StoreErrors ELSE Outcomes

\* the status of the connection a call runs on
StatusOf(on) == IF on \in Handles THEN handles[on] ELSE "default"

\* one store call: the gorm method, the handle it ran on, the handle's status
\* when the call was made, the scopes applied to the statement, what they
\* ask of gorm, the outcome
Call(fn, on, st, applied, err) ==
    [fn |-> fn, on |-> on, st |-> st, scopes |-> applied,
     stmt |-> ApplyScopes(applied), err |-> err]

\* what an operation leaves in `last`: its name, the error it returned, the
\* Transaction it returned ("self", "nil", or "none" when it returns none),
\* whether it panicked, and the builder's fields before it ran
Done(op, ret, txret, panicked) ==
    [op |-> op, ret |-> ret, txret |-> txret, panicked |-> panicked,
     preTx |-> tx, preCommit |-> commit, preSavePoint |-> savePoint,
     preError |-> error, preScopes |-> scopes]

\* the fields SQL(ent) gives a builder
FreshBuilder ==
    [scopes |-> <<>>, tx |-> NoTx, commit |-> FALSE, savePoint |-> "",
     error |-> Nil, clause |-> OwnClause, hasMany |-> FALSE, own |-> FALSE]

\* the ordering fields SQL(ent) gives a builder of the toggle-based variants:
\* transaction.orderBy is empty and no Order call was made on transaction.db
\* (order keeps the arguments of the Order calls made on it, in order); named
\* tells whether OrderBy was ever given a non-empty name
FreshEager == [orderBy |-> <<>>, order |-> <<>>, named |-> FALSE]

\* what a call on a Clause leaves in `clog`: its name, the Clause, what it
\* returned when it is ToSQL, how many ToSQL calls in a row this is, whether
\* it panicked
ClauseCall(op, c, out, n, panicked) ==
    [op |-> op, c |-> c, out |-> out, n |-> n, panicked |-> panicked]

NoClauseCall == ClauseCall("none", OwnClause, <<>>, 0, FALSE)

\* what `given` keeps for a Clause: the comparison calls made on it, each
\* with whether NOT was called since the comparison before it, and whether
\* NOT was called since the last comparison
NothingGiven == [cmp |-> <<>>, pending |-> FALSE]

\* SQL(ent): a fresh builder, no Transaction held, no store call made
InitBuilder ==
    /\ scopes = <<>>
    /\ tx = NoTx
    /\ commit = FALSE
    /\ savePoint = ""
    /\ error = Nil
    /\ handles = [h \in Handles |-> "unused"]
    /\ own = FALSE
    /\ held = {}
    /\ calls = <<>>
    /\ last = Done("SQL", Nil, "none", FALSE)
    /\ clause = OwnClause
    /\ hasMany = FALSE
    /\ parked = FreshBuilder
    /\ eager = FreshEager

\* a fresh builder and Clauses nothing was called on
Init ==
    /\ InitBuilder
    /\ clauses = [c \in ClauseIds |-> EmptyClause]
    /\ given = [c \in ClauseIds |-> NothingGiven]
    /\ clog = NoClauseCall

(***************************************************************************)
(* The builder's private helpers, as functions of the fields they read.    *)
(***************************************************************************)
\* e.joinError(err) with e.error = cur: the error returned and e.error after
joinError(cur, err) ==
    IF Unwrap(cur) # Nil
    THEN [ret |-> ErrJoin(cur, err), error |-> cur]
    ELSE [ret |-> err, error |-> err]

\* a commit() that drops the store's answer to Commit
commitTx_Swallowed(h, st, cErr) ==
    IF commit
    THEN [txret |-> "self", ret |-> Nil,
          calls |-> <<Call("Commit", h, st, <<>>, cErr)>>]
    ELSE [txret |-> "self", ret |-> Nil, calls |-> <<>>]

\* e.commit() on handle h in status st, cErr the store's answer to Commit:
\* the Transaction and error returned and the store call made, if any
commitTx(h, st, cErr) ==
    IF commit
    THEN [txret |-> "self", ret |-> cErr,
          calls |-> <<Call("Commit", h, st, <<>>, cErr)>>]
    ELSE [txret |-> "self", ret |-> Nil, calls |-> <<>>]

\* e.rollback(err) on handle h in status st with e.error = cur, rErr the
\* store's answer to Rollback / RollbackTo: the Transaction and error
\* returned, e.error after, and the store call made
rollback(h, st, cur, err, rErr) ==
    IF savePoint # ""
    THEN LET j == joinError(IF rErr # Nil THEN rErr ELSE cur, err)
         IN  [txret |-> "nil", ret |-> j.ret, error |-> j.error,
              calls |-> <<Call("RollbackTo", h, st, <<>>, rErr)>>]
    ELSE IF rErr # Nil
         THEN LET j == joinError(rErr, err)
              IN  [txret |-> "nil", ret |-> j.ret, error |-> j.error,
                   calls |-> <<Call("Rollback", h, st, <<>>, rErr)>>]
         ELSE [txret |-> "self", ret |-> Nil, error |-> cur,
               calls |-> <<Call("Rollback", h, st, <<>>, rErr)>>]

\* the status of a handle after the store calls cs were made on it
StatusAfter(st, cs) ==
    IF \E i \in 1..Len(cs) : cs[i].fn = "Commit" /\ cs[i].err = Nil
    THEN "committed"
    ELSE IF \E i \in 1..Len(cs) : cs[i].fn = "Rollback" /\ cs[i].err = Nil
         THEN "rolledback"
         ELSE st

(***************************************************************************)
(* The join resolver: the statement Join builds from a raw condition.      *)
(***************************************************************************)
\* the first index at which sep occurs in str, 0 when it does not
FirstAt(str, sep) ==
    LET hits == {i \in 1..(Len(str) - Len(sep) + 1) :
                    SubSeq(str, i, i + Len(sep) - 1) = sep}
    IN  IF hits = {} THEN 0 ELSE CHOOSE i \in hits : \A j \in hits : i <= j

\* strings.Split(str, sep)
RECURSIVE Split(_, _)
Split(str, sep) ==
    LET i == FirstAt(str, sep)
    IN  IF i = 0 THEN <<str>>
        ELSE <<SubSeq(str, 1, i - 1)>>
                 \o Split(SubSeq(str, i + Len(sep), Len(str)), sep)

\* the two nested loops of Join over the first n pieces: every non-empty
\* word of every piece, in order
RECURSIVE WordsOf(_, _)
WordsOf(splited, n) ==
    IF n = 0 THEN <<>>
    ELSE WordsOf(splited, n - 1)
             \o SelectSeq(Split(splited[n], <<" ">>), LAMBDA word : Len(word) > 0)

\* the qualifying loop of Join from position i on: the word before every "?"
\* becomes table + "." + word + " ="
RECURSIVE QualifyFrom(_, _, _)
QualifyFrom(splitedStmt, table, i) ==
    IF i > Len(splitedStmt) THEN splitedStmt
    ELSE QualifyFrom(
             IF splitedStmt[i] = <<"?">>
             THEN [splitedStmt EXCEPT ![i - 1] = table \o <<".">> \o @ \o <<" ", "=">>]
             ELSE splitedStmt,
             table, i + 1)

\* strings.Join(words[1..n], sep)
RECURSIVE StringsJoin(_, _, _)
StringsJoin(words, n, sep) ==
    IF n = 0 THEN <<>>
    ELSE IF n = 1 THEN words[1]
         ELSE StringsJoin(words, n - 1, sep) \o sep \o words[n]

\* stmt of Join for the fragment query
JoinStmt(table, query) ==
    LET splited == Split(query, <<" ", "=", " ">>)
        splitedStmt == QualifyFrom(WordsOf(splited, Len(splited)), table, 2)
    IN  StringsJoin(splitedStmt, Len(splitedStmt), <<" ">>)

(***************************************************************************)
(* Shaping methods: each appends one deferred scope.                       *)
(***************************************************************************)
\* a shaping method of the eager kind: it runs on the connection at once
Shape_Eager(op, scope) ==
    /\ Len(scopes) < MaxScopes
    /\ scopes' = Append(scopes, scope)
    /\ calls' = <<Call(op, DefaultDB, "default", <<scope>>, Nil)>>
    /\ last' = Done(op, Nil, "none", FALSE)
    /\ UNCHANGED <<tx, commit, savePoint, error, handles, own, held, hasMany, parked, eager, cvars>>

\* a shaping method that puts its scope in front of the list
Shape_Prepend(op, scope) ==
    /\ Len(scopes) < MaxScopes
    /\ scopes' = <<scope>> \o scopes
    /\ calls' = <<>>
    /\ last' = Done(op, Nil, "none", FALSE)
    /\ UNCHANGED <<tx, commit, savePoint, error, handles, own, held, hasMany, parked, eager, cvars>>

\* append one scope to e.transaction.scopes; no store call is made
Shape(op, scope) ==
    /\ Len(scopes) < MaxScopes
    /\ scopes' = Append(scopes, scope)
    /\ calls' = <<>>
    /\ last' = Done(op, Nil, "none", FALSE)
    /\ UNCHANGED <<tx, commit, savePoint, error, handles, own, held, hasMany, parked, eager, cvars>>

Select(cols) ==
    /\ Shape("Select", [kind |-> "Select", cols |-> cols])
    /\ UNCHANGED clause

\* the scope keeps the Clause it was given, and e.clause is set to it
Where(c) ==
    /\ Shape("Where", [kind |-> "Where", arg |-> c])
    /\ clause' = c

OrderBy(name, ascending) ==
    /\ Shape("OrderBy", [kind |-> "OrderBy", name |-> name,
                         ascending |-> ascending])
    /\ UNCHANGED clause

Offset(value) ==
    /\ Shape("Offset", [kind |-> "Offset", value |-> value])
    /\ UNCHANGED clause

Limit(value) ==
    /\ Shape("Limit", [kind |-> "Limit", value |-> value])
    /\ UNCHANGED clause

GroupBy(name) ==
    /\ Shape("GroupBy", [kind |-> "GroupBy", name |-> name])
    /\ UNCHANGED clause

\* the scope keeps the builder, not the Clause: arg is what the call was
\* given, e.clause is set to it
Having(c) ==
    /\ Shape("Having", [kind |-> "Having", arg |-> c])
    /\ clause' = c

\* Join(arg): arg is a *Clause (isClause, arg names it) or an entity; with a
\* *Clause the builder's own ToSQL is used, with an entity that of a fresh
\* builder for it; the statement is built now
Join(isClause, arg) ==
    LET args == IF isClause
                THEN EntityToSQL(Order, hasMany, clauses[clause])
                ELSE EntityToSQL(arg, FALSE, EmptyClause)
        table == args[1]
    IN  /\ Shape("Join",
                 IF Len(args) > 1
                 THEN [kind |-> "Joins", table |-> table,
                       stmt |-> JoinStmt(table, args[2]),
                       vals |-> SubSeq(args, 3, Len(args))]
                 ELSE [kind |-> "Preload", table |-> table])
        /\ UNCHANGED clause

\* IsMany(): not a scope, only the flag
IsMany ==
    /\ hasMany' = TRUE
    /\ calls' = <<>>
    /\ last' = Done("IsMany", Nil, "none", FALSE)
    /\ UNCHANGED <<scopes, tx, commit, savePoint, error, handles, own, held,
                   clause, parked, eager, cvars>>

(***************************************************************************)
(* Reads: Find, One, Count and the raw statements.                         *)
(***************************************************************************)
\* a read that resets e.error when the store call succeeds
Read_ClearsError(op, fn, on, applied) ==
    \E err \in StoreOutcomes(StatusOf(on)) :
        LET j == IF err # Nil THEN joinError(error, err)
                 ELSE [ret |-> Nil, error |-> Nil]
        IN  /\ calls' = <<Call(fn, on, StatusOf(on), applied, err)>>
            /\ error' = j.error
            /\ last' = Done(op, j.ret, "none", FALSE)
            /\ UNCHANGED <<scopes, tx, commit, savePoint, handles, own, held, clause, hasMany, parked, eager, cvars>>

\* a read that uses its scopes up
Read_DrainsScopes(op, fn, on, applied) ==
    \E err \in StoreOutcomes(StatusOf(on)) :
        LET j == IF err # Nil THEN joinError(error, err)
                 ELSE [ret |-> Nil, error |-> error]
        IN  /\ calls' = <<Call(fn, on, StatusOf(on), applied, err)>>
            /\ error' = j.error
            /\ last' = Done(op, j.ret, "none", FALSE)
            /\ scopes' = <<>>
            /\ UNCHANGED <<tx, commit, savePoint, handles, own, held, clause, hasMany, parked, eager, cvars>>

\* a read: one store call fn on connection `on` with the scopes `applied`;
\* a failure goes through joinError
Read(op, fn, on, applied) ==
    \E err \in StoreOutcomes(StatusOf(on)) :
        LET j == IF err # Nil THEN joinError(error, err)
                 ELSE [ret |-> Nil, error |-> error]
        IN  /\ calls' = <<Call(fn, on, StatusOf(on), applied, err)>>
            /\ error' = j.error
            /\ last' = Done(op, j.ret, "none", FALSE)
            /\ UNCHANGED <<scopes, tx, commit, savePoint, handles, own, held, clause, hasMany, parked, eager, cvars>>

Find == Read("Find", "Find", DefaultDB, scopes)

One == Read("One", "First", DefaultDB, scopes)

Count == Read("Count", "Count", DefaultDB, scopes)

Query == Read("Query", "Raw", DefaultDB, scopes)

\* Raw(sql, values...).Scan(dest) on a connection: one store call; when it
\* succeeds the store has written the rows of the statement into dest
RawScan(on, st, applied, dest, rows, err) ==
    [fn |-> "Raw", on |-> on, st |-> st, scopes |-> applied,
     stmt |-> ApplyScopes(applied), err |-> err, dest |-> dest,
     rows |-> IF err = Nil THEN rows ELSE <<>>]

\* QueryRows(sql, values...): result is made empty, the statement is scanned
\* into e.table, and result is returned; a failure goes through joinError.
\* rows is what the statement yields.
QueryRows(rows) ==
    \E err \in StoreOutcomes(StatusOf(DefaultDB)) :
        LET j == IF err # Nil THEN joinError(error, err)
                 ELSE [ret |-> Nil, error |-> error]
            result == <<>>
        IN  /\ calls' = <<RawScan(DefaultDB, StatusOf(DefaultDB), scopes,
                                  "e.table", rows, err)>>
            /\ error' = j.error
            /\ last' = [op |-> "QueryRows", ret |-> j.ret, txret |-> "none",
                        panicked |-> FALSE, preTx |-> tx, preCommit |-> commit,
                        preSavePoint |-> savePoint, preError |-> error,
                        preScopes |-> scopes, result |-> result]
            /\ UNCHANGED <<scopes, tx, commit, savePoint, handles, own, held, clause, hasMany, parked, eager, cvars>>

Exec == Read("Exec", "Exec", DefaultDB, scopes)

(***************************************************************************)
(* Writes: Insert, InsertBatch, Update, Delete.                            *)
(***************************************************************************)
\* a write without a transaction that sends its error through joinError
PlainWrite_Joined(op, fn, applied) ==
    /\ tx = NoTx
    /\ \E err \in Outcomes :
        LET j == IF err # Nil THEN joinError(error, err)
                 ELSE [ret |-> Nil, error |-> error]
        IN  /\ calls' = <<Call(fn, DefaultDB, "default", applied, err)>>
            /\ error' = j.error
            /\ last' = Done(op, j.ret, "none", FALSE)
    /\ UNCHANGED <<scopes, tx, commit, savePoint, handles, own, held, clause, hasMany, parked, eager, cvars>>

\* the branch taken when e.transaction.tx == nil: the write runs on the
\* default handle and its error is returned as it is
PlainWrite(op, fn, applied) ==
    /\ tx = NoTx
    /\ \E err \in Outcomes :
        /\ calls' = <<Call(fn, DefaultDB, "default", applied, err)>>
        /\ last' = Done(op, err, "none", FALSE)
    /\ UNCHANGED <<scopes, tx, commit, savePoint, error, handles, own, held, clause, hasMany, parked, eager, cvars>>

\* a write in a transaction that reports the failure without rolling back
AfterWrite_NoRollback(st, wErr, rErr, cErr) ==
    IF wErr # Nil
    THEN LET j == joinError(error, wErr)
         IN  [ret |-> j.ret, error |-> j.error, calls |-> <<>>]
    ELSE IF commit
         THEN LET cm == commitTx(tx, st, cErr)
                  j  == IF cm.ret # Nil THEN joinError(error, cm.ret)
                        ELSE [ret |-> Nil, error |-> error]
              IN  [ret |-> j.ret, error |-> j.error, calls |-> cm.calls]
         ELSE [ret |-> Nil, error |-> error, calls |-> <<>>]

\* what the branch with a transaction does after the write answered wErr:
\* rollback and joinError on failure, commit when the flag is set
AfterWrite(st, wErr, rErr, cErr) ==
    IF wErr # Nil
    THEN LET rb == rollback(tx, st, error, wErr, rErr)
             j  == IF rb.ret # Nil THEN joinError(rb.error, rb.ret)
                   ELSE joinError(rb.error, wErr)
         IN  [ret |-> j.ret, error |-> j.error, calls |-> rb.calls]
    ELSE IF commit
         THEN LET cm == commitTx(tx, st, cErr)
                  j  == IF cm.ret # Nil THEN joinError(error, cm.ret)
                        ELSE [ret |-> Nil, error |-> error]
              IN  [ret |-> j.ret, error |-> j.error, calls |-> cm.calls]
         ELSE [ret |-> Nil, error |-> error, calls |-> <<>>]

\* the branch taken when e.transaction.tx != nil
TxWrite(op, fn, applied) ==
    /\ tx # NoTx
    /\ LET st == handles[tx]
       IN  \E wErr \in StoreOutcomes(st) :
           \E rErr \in (IF wErr # Nil THEN StoreOutcomes(st) ELSE {Nil}) :
           \E cErr \in (IF wErr = Nil /\ commit THEN StoreOutcomes(st) ELSE {Nil}) :
               LET r  == AfterWrite(st, wErr, rErr, cErr)
                   cs == <<Call(fn, tx, st, applied, wErr)>> \o r.calls
               IN  /\ calls' = cs
                   /\ error' = r.error
                   /\ handles' = [handles EXCEPT ![tx] = StatusAfter(st, cs)]
                   /\ last' = Done(op, r.ret, "none", FALSE)
    /\ UNCHANGED <<scopes, tx, commit, savePoint, own, held, clause, hasMany, parked, eager, cvars>>

Insert ==
    \/ PlainWrite("Insert", "Create", <<>>)
    \/ TxWrite("Insert", "Create", <<>>)

\* CreateInBatches(value, batchSize) on a connection: one store call, which
\* keeps the list and the batch size it was given
CreateInBatches(on, st, value, batchSize, err) ==
    [fn |-> "CreateInBatches", on |-> on, st |-> st, scopes |-> <<>>,
     stmt |-> <<>>, err |-> err, value |-> value, batchSize |-> batchSize]

\* an InsertBatch that writes the entities one to a batch
InsertBatch_OneByOne(entities) ==
    \/ /\ tx = NoTx
       /\ \E err \in Outcomes :
           /\ calls' = <<CreateInBatches(DefaultDB, "default", entities, 1, err)>>
           /\ last' = Done("InsertBatch", err, "none", FALSE)
       /\ UNCHANGED <<scopes, tx, commit, savePoint, error, handles, own, held, clause, hasMany, parked, eager, cvars>>
    \/ /\ tx # NoTx
       /\ LET st == handles[tx]
          IN  \E wErr \in StoreOutcomes(st) :
              \E rErr \in (IF wErr # Nil THEN StoreOutcomes(st) ELSE {Nil}) :
              \E cErr \in (IF wErr = Nil /\ commit THEN StoreOutcomes(st) ELSE {Nil}) :
                  LET r  == AfterWrite(st, wErr, rErr, cErr)
                      cs == <<CreateInBatches(tx, st, entities, 1, wErr)>> \o r.calls
                  IN  /\ calls' = cs
                      /\ error' = r.error
                      /\ handles' = [handles EXCEPT ![tx] = StatusAfter(st, cs)]
                      /\ last' = Done("InsertBatch", r.ret, "none", FALSE)
       /\ UNCHANGED <<scopes, tx, commit, savePoint, own, held, clause, hasMany, parked, eager, cvars>>

\* InsertBatch(ctx, entities): one CreateInBatches(entities, len(entities)),
\* on the default handle when e.transaction.tx == nil, else on the
\* transaction, followed by what every write in a transaction does
InsertBatch(entities) ==
    \/ /\ tx = NoTx
       /\ \E err \in Outcomes :
           /\ calls' = <<CreateInBatches(DefaultDB, "default", entities,
                                         Len(entities), err)>>
           /\ last' = Done("InsertBatch", err, "none", FALSE)
       /\ UNCHANGED <<scopes, tx, commit, savePoint, error, handles, own, held, clause, hasMany, parked, eager, cvars>>
    \/ /\ tx # NoTx
       /\ LET st == handles[tx]
          IN  \E wErr \in StoreOutcomes(st) :
              \E rErr \in (IF wErr # Nil THEN StoreOutcomes(st) ELSE {Nil}) :
              \E cErr \in (IF wErr = Nil /\ commit THEN StoreOutcomes(st) ELSE {Nil}) :
                  LET r  == AfterWrite(st, wErr, rErr, cErr)
                      cs == <<CreateInBatches(tx, st, entities, Len(entities), wErr)>>
                                \o r.calls
                  IN  /\ calls' = cs
                      /\ error' = r.error
                      /\ handles' = [handles EXCEPT ![tx] = StatusAfter(st, cs)]
                      /\ last' = Done("InsertBatch", r.ret, "none", FALSE)
       /\ UNCHANGED <<scopes, tx, commit, savePoint, own, held, clause, hasMany, parked, eager, cvars>>

Update ==
    \/ PlainWrite("Update", "Updates", scopes)
    \/ TxWrite("Update", "Updates", scopes)

Delete ==
    \/ PlainWrite("Delete", "Delete", scopes)
    \/ TxWrite("Delete", "Delete", <<>>)

(***************************************************************************)
(* InsertTx, UpdateTx, DeleteTx: begin a transaction and write in it.      *)
(***************************************************************************)
\* the handle db.Begin() returns: the first one not handed out yet
Fresh ==
    HandleSeq[CHOOSE i \in 1..Len(HandleSeq) :
        /\ handles[HandleSeq[i]] = "unused"
        /\ \A k \in 1..(i - 1) : handles[HandleSeq[k]] # "unused"]

\* e.transaction.tx = db.Begin(); the write; then `return e.rollback(err)` on
\* failure and `return e.commit()` otherwise
BeginWrite(op, fn, applied) ==
    /\ \E h \in Handles : handles[h] = "unused"
    /\ LET h == Fresh
       IN  \E wErr \in Outcomes :
           \E rErr \in (IF wErr # Nil THEN Outcomes ELSE {Nil}) :
           \E cErr \in (IF wErr = Nil /\ commit THEN Outcomes ELSE {Nil}) :
               LET r  == IF wErr # Nil
                         THEN rollback(h, "active", error, wErr, rErr)
                         ELSE commitTx(h, "active", cErr)
                   e2 == IF wErr # Nil THEN r.error ELSE error
                   cs == <<Call("Begin", DefaultDB, "default", <<>>, Nil),
                           Call(fn, h, "active", applied, wErr)>> \o r.calls
               IN  /\ tx' = h
                   /\ calls' = cs
                   /\ error' = e2
                   /\ handles' = [handles EXCEPT ![h] = StatusAfter("active", cs)]
                   /\ own' = (own \/ r.txret = "self")
                   /\ last' = Done(op, r.ret, r.txret, FALSE)
    /\ UNCHANGED <<scopes, commit, savePoint, held, clause, hasMany, parked, eager, cvars>>

InsertTx == BeginWrite("InsertTx", "Create", <<>>)

UpdateTx == BeginWrite("UpdateTx", "Updates", scopes)

DeleteTx == BeginWrite("DeleteTx", "Delete", scopes)

(***************************************************************************)
(* Transactions handed between builders.                                   *)
(***************************************************************************)
\* the Transaction values the caller can pass: this builder's own one, and
\* those of earlier builders (named by the handle they carry)
Transactions == (IF own THEN {"own"} ELSE {}) \cup held

\* t.tx of a Transaction value
TxOf(t) == IF t = "own" THEN tx ELSE t

\* a SetTx that names a savepoint for the transaction it attaches
SetTx_NamesSavePoint(t, c) ==
    /\ t \in Transactions
    /\ tx' = TxOf(t)
    /\ commit' = c
    /\ savePoint' = "sp"
    /\ calls' = <<>>
    /\ last' = Done("SetTx", Nil, "none", FALSE)
    /\ UNCHANGED <<scopes, error, handles, own, held, clause, hasMany, parked, eager, cvars>>

\* e.SetTx(t, c): the transaction and the commit directive are attached
SetTx(t, c) ==
    /\ t \in Transactions
    /\ tx' = TxOf(t)
    /\ commit' = c
    /\ calls' = <<>>
    /\ last' = Done("SetTx", Nil, "none", FALSE)
    /\ UNCHANGED <<scopes, savePoint, error, handles, own, held, clause, hasMany, parked, eager, cvars>>

\* t.Commit(), called by whoever holds the Transaction
TransactionCommit(t) ==
    /\ t \in Transactions
    /\ LET h  == TxOf(t)
           st == handles[h]
       IN  \E cErr \in StoreOutcomes(st) :
               LET cs == <<Call("Commit", h, st, <<>>, cErr)>>
               IN  /\ calls' = cs
                   /\ handles' = [handles EXCEPT ![h] = StatusAfter(st, cs)]
                   /\ last' = Done("Transaction.Commit", cErr, "none", FALSE)
    /\ UNCHANGED <<scopes, tx, commit, savePoint, error, own, held, clause, hasMany, parked, eager, cvars>>

\* SQL(ent): the caller drops this builder and constructs the next one; the
\* Transactions it holds stay valid
SQL ==
    /\ scopes' = <<>>
    /\ tx' = NoTx
    /\ commit' = FALSE
    /\ savePoint' = ""
    /\ error' = Nil
    /\ own' = FALSE
    /\ held' = held \cup (IF own THEN {tx} ELSE {})
    /\ calls' = <<>>
    /\ last' = [op |-> "SQL", ret |-> Nil, txret |-> "none", panicked |-> FALSE,
                preTx |-> NoTx, preCommit |-> FALSE, preSavePoint |-> "",
                preError |-> Nil, preScopes |-> <<>>]
    /\ clause' = OwnClause
    /\ hasMany' = FALSE
    /\ UNCHANGED <<handles, parked, eager, cvars>>

\* the caller turns to the other builder it keeps: the two builders change
\* places, no method of either is called
Swap ==
    /\ parked' = [scopes |-> scopes, tx |-> tx, commit |-> commit,
                  savePoint |-> savePoint, error |-> error, clause |-> clause,
                  hasMany |-> hasMany, own |-> own]
    /\ scopes' = parked.scopes
    /\ tx' = parked.tx
    /\ commit' = parked.commit
    /\ savePoint' = parked.savePoint
    /\ error' = parked.error
    /\ clause' = parked.clause
    /\ hasMany' = parked.hasMany
    /\ own' = parked.own
    /\ calls' = <<>>
    /\ last' = [op |-> "Swap", ret |-> Nil, txret |-> "none", panicked |-> FALSE,
                preTx |-> parked.tx, preCommit |-> parked.commit,
                preSavePoint |-> parked.savePoint, preError |-> parked.error,
                preScopes |-> parked.scopes]
    /\ UNCHANGED <<handles, held, eager, cvars>>

(***************************************************************************)
(* The specification.                                                      *)
(***************************************************************************)
\* The transaction engine never looks into a scope: one shaping method
\* stands for all of them here, and SpecShape has every one.
Next ==
    \/ SQL
    \/ \E value \in {10} : Limit(value)
    \/ \E t \in Transactions, c \in BOOLEAN : SetTx(t, c)
    \/ \E t \in Transactions : TransactionCommit(t)
    \/ Find
    \/ One
    \/ Count
    \/ Query
    \/ \E rows \in {<<"r1">>} : QueryRows(rows)
    \/ Exec
    \/ Insert
    \/ \E entities \in {<<"e1", "e2">>} : InsertBatch(entities)
    \/ Update
    \/ Delete
    \/ InsertTx
    \/ UpdateTx
    \/ DeleteTx

Spec == Init /\ [][Next]_vars

(***************************************************************************)
(* Vocabulary of the properties.                                           *)
(***************************************************************************)
\* the terminal operations by kind
Reads == {"Find", "One", "Count", "Query", "QueryRows", "Exec"}

Writes == {"Insert", "InsertBatch", "Update", "Delete"}

BeginWrites == {"InsertTx", "UpdateTx", "DeleteTx"}

\* the store methods by kind
WriteFns == {"Create", "CreateInBatches", "Updates", "Delete"}

ReadFns == {"Find", "First", "Count", "Raw", "Exec"}

RollbackFns == {"Rollback", "RollbackTo"}

\* the positions in `calls` of the calls to one of the methods fns
CallsTo(fns) == {i \in 1..Len(calls) : calls[i].fn \in fns}

\* the last operation was a write on a builder holding a transaction
WroteInTx == last.op \in Writes /\ last.preTx # NoTx

(***************************************************************************)
(* Properties of the terminal operations and the transaction manager.      *)
(***************************************************************************)
\* C1: when a write on a builder with a transaction and the explicit-commit
\* flag set fails with E1 and the rollback that follows fails with E2, the
\* error returned exposes both E1 and E2.
C1_BothErrorsExposed ==
    (/\ WroteInTx
     /\ last.preCommit
     /\ Len(calls) = 2
     /\ calls[1].err # Nil
     /\ calls[2].fn \in RollbackFns
     /\ calls[2].err # Nil)
    => /\ Is(last.ret, calls[1].err)
       /\ Is(last.ret, calls[2].err)

\* C2: whenever the store's read, write or exec call of a terminal operation
\* fails, the operation returns a non-nil error.
C2_FailureSurfaced ==
    (/\ last.op \in Reads \cup Writes \cup BeginWrites
     /\ \E i \in CallsTo(WriteFns \cup ReadFns) : calls[i].err # Nil)
    => last.ret # Nil

\* C3: a write on a builder with a transaction whose store write fails is
\* followed by exactly one rollback attempt on that transaction, and by no
\* commit, whatever the explicit-commit flag says.
C3_OneRollbackNoCommit ==
    (WroteInTx /\ calls[1].err # Nil)
    => /\ Len(calls) = 2
       /\ calls[1].fn \in WriteFns
       /\ calls[2].fn \in RollbackFns
       /\ calls[2].on = last.preTx
       /\ CallsTo({"Commit"}) = {}

C3_Witness ==
    /\ last.op = "Update"
    /\ last.preTx # NoTx
    /\ last.preCommit
    /\ calls[1].err # Nil
    /\ calls[2].fn = "Rollback"

\* C4: a write on a builder with a transaction whose store write succeeds
\* commits that transaction exactly once if the explicit-commit flag is set
\* and returns an error exposing the commit's failure, if any; with the flag
\* unset it makes no further call, leaves the transaction active and
\* returns nil.  It never rolls back.
C4_CommitIffFlag ==
    (WroteInTx /\ calls[1].err = Nil)
    => /\ CallsTo(RollbackFns) = {}
       /\ last.preCommit =>
            /\ Len(calls) = 2
            /\ calls[2].fn = "Commit"
            /\ calls[2].on = last.preTx
            /\ calls[2].err = Nil => last.ret = Nil
            /\ calls[2].err # Nil =>
                 last.ret # Nil /\ Is(last.ret, calls[2].err)
       /\ ~last.preCommit =>
            /\ Len(calls) = 1
            /\ handles[last.preTx] = "active"
            /\ last.ret = Nil

C4_Witness ==
    /\ last.op = "Insert"
    /\ last.preTx # NoTx
    /\ last.preCommit
    /\ Len(calls) = 2
    /\ calls[1].err = Nil
    /\ calls[2].fn = "Commit"
    /\ calls[2].err # Nil
    /\ Unwrap(last.preError) # Nil

\* C5: a write on a builder without a transaction makes exactly one store
\* call, the write on the default handle, makes no rollback and no commit,
\* and returns the store's answer unchanged.
C5_PlainWrite ==
    (last.op \in Writes /\ last.preTx = NoTx)
    => /\ Len(calls) = 1
       /\ calls[1].fn \in WriteFns
       /\ calls[1].on = DefaultDB
       /\ last.ret = calls[1].err

C5_Witness ==
    /\ last.op = "Insert"
    /\ last.preTx = NoTx
    /\ Len(calls) = 1
    /\ calls[1].fn = "Create"
    /\ last.ret = Nil

\* C6: SetTx called after a shaping call panics, attaches no transaction
\* and makes no store call.
C6_SetTxAfterShapingPanics ==
    (last.op = "SetTx" /\ last.preScopes # <<>>)
    => /\ last.panicked
       /\ tx = last.preTx
       /\ commit = last.preCommit
       /\ calls = <<>>

\* C7: a read runs on the transaction the builder holds, and on the default
\* handle only when it holds none.
C7_ReadOnCurrentConnection ==
    last.op \in Reads
    => /\ Len(calls) = 1
       /\ calls[1].on = (IF last.preTx # NoTx THEN last.preTx ELSE DefaultDB)

\* C8 as stated: after a read, failed or not, the transaction handle, the
\* savepoint name, the explicit-commit flag and the accumulated error are
\* what they were before it.
C8_ReadKeepsAllState ==
    last.op \in Reads
    => /\ tx = last.preTx
       /\ savePoint = last.preSavePoint
       /\ commit = last.preCommit
       /\ error = last.preError

\* C8 as amended: a read never changes the transaction handle, the
\* savepoint name or the explicit-commit flag, and a successful read leaves
\* the accumulated error unchanged; a failed read records the store's error
\* as the accumulated error, unless that one is a wrapping error, which is
\* kept.
C8_ReadKeepsTransaction ==
    last.op \in Reads
    => /\ tx = last.preTx
       /\ savePoint = last.preSavePoint
       /\ commit = last.preCommit
       /\ calls[1].err = Nil => error = last.preError
       /\ calls[1].err # Nil =>
            error = (IF Unwrap(last.preError) # Nil THEN last.preError
                     ELSE calls[1].err)

C8_Witness ==
    /\ last.op = "Find"
    /\ last.preTx # NoTx
    /\ last.preCommit
    /\ calls[1].err # Nil
    /\ error # last.preError
    /\ tx = last.preTx

\* C9: a write that is shaped by scopes (Update, Delete, UpdateTx, DeleteTx)
\* applies the builder's whole scope list to its statement, on the default
\* handle and in a transaction alike.
C9_WriteAppliesScopes ==
    last.op \in {"Update", "Delete", "UpdateTx", "DeleteTx"}
    => \A i \in CallsTo(WriteFns) : calls[i].scopes = last.preScopes

\* C10: a write, commit or rollback is only ever issued by an operation of
\* the builder on a handle that is active: never on one that was committed
\* or rolled back.
C10_NoCallOnFinishedHandle ==
    last.op \in Writes \cup BeginWrites
    => \A i \in CallsTo(WriteFns \cup RollbackFns \cup {"Commit"}) :
           calls[i].on \in Handles => calls[i].st = "active"

(***************************************************************************)
(* Calls on a Clause (src/unnamed/part_003, type Clause).                  *)
(***************************************************************************)
\* comparison methods whose constructors hand every Clause the same slice
Compare_Shared(op, c, operator, field, value) ==
    /\ Len(clauses[c].builder) < MaxPreds
    /\ LET w == clauses[c]
           key == IF w.not THEN NOTOperator \o field ELSE field
       IN  clauses' = [d \in ClauseIds |->
               [builder |-> clauses[d].builder
                                \o <<makeWhereClause(operator, key, value)>>,
                not |-> IF d = c THEN FALSE ELSE clauses[d].not]]
    /\ given' = [given EXCEPT ![c] =
           [cmp |-> Append(@.cmp, [op |-> op, field |-> field, value |-> value,
                                   afterNot |-> @.pending]),
            pending |-> FALSE]]
    /\ clog' = ClauseCall(op, c, <<>>, 0, FALSE)
    /\ UNCHANGED bvars

\* a comparison method that leaves the pending NOT set
Compare_KeepsNot(op, c, operator, field, value) ==
    /\ Len(clauses[c].builder) < MaxPreds
    /\ LET w == clauses[c]
           key == IF w.not THEN NOTOperator \o field ELSE field
       IN  clauses' = [clauses EXCEPT ![c] =
               [builder |-> w.builder \o <<makeWhereClause(operator, key, value)>>,
                not |-> w.not]]
    /\ given' = [given EXCEPT ![c] =
           [cmp |-> Append(@.cmp, [op |-> op, field |-> field, value |-> value,
                                   afterNot |-> @.pending]),
            pending |-> FALSE]]
    /\ clog' = ClauseCall(op, c, <<>>, 0, FALSE)
    /\ UNCHANGED bvars

\* a comparison method: prefix the column when NOT is pending, append the
\* entry the constructor of the same name makes, clear the pending NOT
Compare(op, c, operator, field, value) ==
    /\ Len(clauses[c].builder) < MaxPreds
    /\ LET w == clauses[c]
           key == IF w.not THEN NOTOperator \o field ELSE field
       IN  clauses' = [clauses EXCEPT ![c] =
               [builder |-> w.builder \o <<makeWhereClause(operator, key, value)>>,
                not |-> FALSE]]
    /\ given' = [given EXCEPT ![c] =
           [cmp |-> Append(@.cmp, [op |-> op, field |-> field, value |-> value,
                                   afterNot |-> @.pending]),
            pending |-> FALSE]]
    /\ clog' = ClauseCall(op, c, <<>>, 0, FALSE)
    /\ UNCHANGED bvars

EQ(c, field, value) == Compare("EQ", c, EQOperator, field, value)

GT(c, field, value) == Compare("GT", c, GTOperator, field, value)

GTE(c, field, value) == Compare("GTE", c, GTEOperator, field, value)

LT(c, field, value) == Compare("LT", c, LTOperator, field, value)

LTE(c, field, value) == Compare("LTE", c, LTEOperator, field, value)

\* an IN that appends one entry for every value of the list
ClauseIN_Spread(c, field, values) ==
    /\ Len(clauses[c].builder) < MaxPreds
    /\ LET w == clauses[c]
           key == IF w.not THEN NOTOperator \o field ELSE field
       IN  clauses' = [clauses EXCEPT ![c] =
               [builder |-> w.builder
                    \o [j \in 1..Len(values) |->
                            makeWhereClause(INOperator, key, values[j])],
                not |-> FALSE]]
    /\ given' = [given EXCEPT ![c] =
           [cmp |-> Append(@.cmp, [op |-> "IN", field |-> field, value |-> values,
                                   afterNot |-> @.pending]),
            pending |-> FALSE]]
    /\ clog' = ClauseCall("IN", c, <<>>, 0, FALSE)
    /\ UNCHANGED bvars

\* IN(field, values): the list is the one value of the entry
ClauseIN(c, field, values) == Compare("IN", c, INOperator, field, values)

Like(c, field, value) == Compare("Like", c, LikeOperator, field, value)

Between(c, field, value) == Compare("Between", c, BetWeen, field, value)

\* NOT(): only the flag
NOT(c) ==
    /\ clauses' = [clauses EXCEPT ![c].not = TRUE]
    /\ given' = [given EXCEPT ![c].pending = TRUE]
    /\ clog' = ClauseCall("NOT", c, <<>>, 0, FALSE)
    /\ UNCHANGED bvars

\* AND() / OR() that do nothing when the Clause holds no entry
Connect_Silent(op, c, nextBoolOP) ==
    /\ IF Len(clauses[c].builder) = 0
       THEN /\ clog' = ClauseCall(op, c, <<>>, 0, FALSE)
            /\ UNCHANGED clauses
       ELSE /\ clauses' = [clauses EXCEPT
                   ![c].builder[Len(clauses[c].builder)].nextBoolOP = nextBoolOP]
            /\ clog' = ClauseCall(op, c, <<>>, 0, FALSE)
    /\ UNCHANGED given
    /\ UNCHANGED bvars

\* AND() / OR(): set nextBoolOP of the last entry; with no entry the index
\* len(w.builder)-1 is out of range and the call panics
Connect(op, c, nextBoolOP) ==
    /\ IF Len(clauses[c].builder) = 0
       THEN /\ clog' = ClauseCall(op, c, <<>>, 0, TRUE)
            /\ UNCHANGED clauses
       ELSE /\ clauses' = [clauses EXCEPT
                   ![c].builder[Len(clauses[c].builder)].nextBoolOP = nextBoolOP]
            /\ clog' = ClauseCall(op, c, <<>>, 0, FALSE)
    /\ UNCHANGED given
    /\ UNCHANGED bvars

AND(c) == Connect("AND", c, ANDOperator)

OR(c) == Connect("OR", c, OROperator)

\* a ToSQL() that uses up the pending NOT
ToSQL_ClearsNot(c) ==
    /\ clog' = ClauseCall("ToSQL", c, ClauseToSQL(clauses[c]),
                          IF clog.op = "ToSQL" /\ clog.c = c THEN 2 ELSE 1, FALSE)
    /\ clauses' = [clauses EXCEPT ![c].not = FALSE]
    /\ UNCHANGED given
    /\ UNCHANGED bvars

\* ToSQL(): render, the Clause is only read
ToSQL(c) ==
    /\ clog' = ClauseCall("ToSQL", c, ClauseToSQL(clauses[c]),
                          IF clog.op = "ToSQL" /\ clog.c = c THEN 2 ELSE 1, FALSE)
    /\ UNCHANGED <<clauses, given>>
    /\ UNCHANGED bvars

(***************************************************************************)
(* The Clause builder on its own: the caller builds Clause c1 call by call *)
(* and renders it; Clause c2, made by EQ("id", 0).NOT(), is a second       *)
(* instance the caller holds, with a NOT pending on it.                    *)
(***************************************************************************)
\* the value the caller passes to the next comparison call on c: values are
\* opaque to the builder, and the k-th call passes k so that positions can be
\* told apart
NextValue(c) == Len(given[c].cmp) + 1

\* the list of n values the caller passes to IN
NextList(c, n) == [j \in 1..n |-> 10 * NextValue(c) + j]

InitClause ==
    /\ InitBuilder
    /\ clauses = [c \in ClauseIds |->
                     IF c = "c2"
                     THEN [builder |-> <<makeWhereClause(EQOperator, <<"i", "d">>, 0)>>,
                           not |-> TRUE]
                     ELSE EmptyClause]
    /\ given = [c \in ClauseIds |->
                   IF c = "c2"
                   THEN [cmp |-> <<[op |-> "EQ", field |-> <<"i", "d">>, value |-> 0,
                                    afterNot |-> FALSE]>>,
                         pending |-> TRUE]
                   ELSE NothingGiven]
    /\ clog = NoClauseCall

NextClause ==
    \/ \E field \in Fields : EQ("c1", field, NextValue("c1"))
    \/ \E field \in Fields : GT("c1", field, NextValue("c1"))
    \/ \E field \in Fields : GTE("c1", field, NextValue("c1"))
    \/ \E field \in Fields : LT("c1", field, NextValue("c1"))
    \/ \E field \in Fields : LTE("c1", field, NextValue("c1"))
    \/ \E field \in Fields, n \in ListLens : ClauseIN("c1", field, NextList("c1", n))
    \/ \E field \in Fields : Like("c1", field, NextValue("c1"))
    \/ \E field \in Fields : Between("c1", field, NextValue("c1"))
    \/ NOT("c1")
    \/ AND("c1")
    \/ OR("c1")
    \/ ToSQL("c1")

SpecClause == InitClause /\ [][NextClause]_vars

(***************************************************************************)
(* Properties of the Clause builder, checked under SpecClause.             *)
(***************************************************************************)
\* how often the character ch occurs in str
CountOf(str, ch) == Cardinality({i \in 1..Len(str) : str[i] = ch})

\* the operator text of a comparison method
OperatorOf(op) ==
    CASE op = "EQ" -> <<"=">>
      [] op = "GT" -> <<">">>
      [] op = "GTE" -> <<">", "=">>
      [] op = "LT" -> <<"<">>
      [] op = "LTE" -> <<"<", "=">>
      [] op = "IN" -> <<"I", "N">>
      [] op = "Like" -> <<"L", "I", "K", "E">>
      [] op = "Between" -> <<"B", "E", "T", "W", "E", "E", "N">>

\* the last call was ToSQL on a Clause the caller built
Rendered == clog.op = "ToSQL"

\* C16: the fragment ToSQL returns has as many '?' as the list has bound
\* values, one for every comparison call, and the i-th bound value is the
\* value given to the i-th comparison call
C16_PlaceholdersMatchValues ==
    Rendered =>
        LET out == clog.out
            cmp == given[clog.c].cmp
        IN  /\ CountOf(out[1], "?") = Len(out) - 1
            /\ Len(out) - 1 = Len(cmp)
            /\ \A i \in 1..Len(cmp) : out[i + 1] = cmp[i].value

\* two comparisons, the second after NOT, joined by AND, have been rendered
C16_Witness ==
    /\ Rendered
    /\ Len(given[clog.c].cmp) >= 2
    /\ given[clog.c].cmp[2].afterNot
    /\ clauses[clog.c].builder[1].nextBoolOP = ANDOperator
    /\ clog.out[2] # clog.out[3]

\* the fragment the calls made on a Clause stand for, entry by entry up to
\* the n-th: 'NOT ' before the column of a comparison called after NOT, then
\* '<column> <op> ?', then the connective the entry carries
RECURSIVE NegatedFragment(_, _, _)
NegatedFragment(cmp, builder, n) ==
    IF n = 0 THEN <<>>
    ELSE NegatedFragment(cmp, builder, n - 1)
             \o (IF cmp[n].afterNot THEN <<"N", "O", "T", " ">> ELSE <<>>)
             \o cmp[n].field \o <<" ">> \o OperatorOf(cmp[n].op) \o <<" ", "?">>
             \o (IF builder[n].nextBoolOP # <<>>
                 THEN <<" ">> \o builder[n].nextBoolOP ELSE <<>>)

\* C17: a predicate is negated exactly when NOT was called since the
\* comparison before it; NOT appends no predicate and stays pending until the
\* next comparison on the same Clause; the negated predicate renders as
\* 'NOT <column> <op> ?'; the other Clause keeps its predicate and its own
\* pending NOT
C17_NotNegatesNextOnly ==
    /\ \A c \in CallerClauses :
        LET w == clauses[c]
            g == given[c]
        IN  /\ Len(w.builder) = Len(g.cmp)
            /\ w.not = g.pending
            /\ \A i \in 1..Len(g.cmp) :
                   w.builder[i].key = IF g.cmp[i].afterNot
                                      THEN <<"N", "O", "T", " ">> \o g.cmp[i].field
                                      ELSE g.cmp[i].field
    /\ Rendered =>
           clog.out[1] = NegatedFragment(given[clog.c].cmp, clauses[clog.c].builder,
                                         Len(given[clog.c].cmp))
    /\ clauses["c2"].builder[1].key = <<"i", "d">>
    /\ Len(clauses["c2"].builder) = 1
    /\ clauses["c2"].not

\* NOT between two comparisons: the second is negated, the first is not, and
\* nothing is pending any more
C17_Witness ==
    /\ Rendered
    /\ clog.c = "c1"
    /\ Len(given["c1"].cmp) = 2
    /\ ~given["c1"].cmp[1].afterNot
    /\ given["c1"].cmp[2].afterNot
    /\ ~clauses["c1"].not

\* the fragment of the entries up to the n-th with every connective word
\* between single spaces
RECURSIVE SpacedFragment(_, _)
SpacedFragment(builder, n) ==
    IF n = 0 THEN <<>>
    ELSE SpacedFragment(builder, n - 1)
             \o builder[n].key \o <<" ">> \o builder[n].operator \o <<" ", "?">>
             \o (IF builder[n].nextBoolOP = ANDOperator
                 THEN <<" ", "A", "N", "D", " ">>
                 ELSE IF builder[n].nextBoolOP = OROperator
                      THEN <<" ", "O", "R", " ">>
                      ELSE <<>>)

\* C18: in the rendered fragment the connective attached to predicate i comes
\* right after that predicate's '<column> <op> ?' and before the next
\* predicate's segment, with one space on either side
C18_ConnectiveBetweenSegments ==
    Rendered =>
        clog.out[1] = SpacedFragment(clauses[clog.c].builder,
                                     Len(clauses[clog.c].builder))

\* two predicates with OR between them have been rendered
C18_Witness ==
    /\ Rendered
    /\ Len(clauses[clog.c].builder) = 2
    /\ clauses[clog.c].builder[1].nextBoolOP = OROperator
    /\ clauses[clog.c].builder[2].nextBoolOP = <<>>

\* C19: a ToSQL call changes no Clause, and a ToSQL call right after another
\* one on the same Clause returns the same fragment and arguments
C19_RenderIsPure ==
    [][clog'.op = "ToSQL" =>
          /\ clauses' = clauses
          /\ (clog.op = "ToSQL" /\ clog.c = clog'.c) => clog'.out = clog.out]_vars

\* ToSQL was called twice in a row on a Clause with two predicates, a
\* connective and a pending NOT
C19_Witness ==
    /\ Rendered
    /\ clog.n = 2
    /\ Len(clauses[clog.c].builder) = 2
    /\ clauses[clog.c].builder[2].nextBoolOP = ANDOperator
    /\ clauses[clog.c].not

\* the comparison calls on the rendered Clause that were IN or Between
ListCalls ==
    {i \in 1..Len(given[clog.c].cmp) : given[clog.c].cmp[i].op \in {"IN", "Between"}}

\* C20: every IN call, whatever the length of its list, and every Between
\* call stands for one entry, whose segment has one '?' and whose bound value
\* is the whole list or value
C20_OnePlaceholderPerListPredicate ==
    Rendered =>
        LET builder == clauses[clog.c].builder
            cmp == given[clog.c].cmp
        IN  /\ Len(builder) = Len(cmp)
            /\ \A i \in ListCalls :
                /\ builder[i].value = cmp[i].value
                /\ clog.out[i + 1] = cmp[i].value
                /\ CountOf(Segment(builder[i]), "?") = 1
            /\ ListCalls = 1..Len(cmp) =>
                   CountOf(clog.out[1], "?") = Cardinality(ListCalls)

\* IN with an empty list and IN with a list of two, rendered
C20_Witness ==
    /\ Rendered
    /\ Len(given[clog.c].cmp) = 2
    /\ given[clog.c].cmp[1].op = "IN"
    /\ given[clog.c].cmp[1].value = <<>>
    /\ given[clog.c].cmp[2].op = "IN"
    /\ Len(given[clog.c].cmp[2].value) = 2

(***************************************************************************)
(* The scope list on its own: every shaping method and a read, with and    *)
(* without an injected transaction.  The caller holds the Transaction of   *)
(* an earlier InsertTx, still live, and the Clause c1 made by EQ("id", 1). *)
(***************************************************************************)
\* the builder side after an earlier builder's InsertTx succeeded and
\* SQL(ent) made the present builder
InitLive ==
    /\ scopes = <<>>
    /\ tx = NoTx
    /\ commit = FALSE
    /\ savePoint = ""
    /\ error = Nil
    /\ handles = [h \in Handles |-> "active"]
    /\ own = FALSE
    /\ held = Handles
    /\ calls = <<>>
    /\ last = Done("SQL", Nil, "none", FALSE)
    /\ clause = OwnClause
    /\ hasMany = FALSE
    /\ parked = FreshBuilder
    /\ eager = FreshEager

\* the Clauses when the caller has made c1 by EQ("id", 1)
InitMade ==
    /\ clauses = [c \in ClauseIds |->
                     IF c = "c1"
                     THEN [builder |-> <<makeWhereClause(EQOperator, <<"i", "d">>, 1)>>,
                           not |-> FALSE]
                     ELSE EmptyClause]
    /\ given = [c \in ClauseIds |->
                   IF c = "c1"
                   THEN [cmp |-> <<[op |-> "EQ", field |-> <<"i", "d">>, value |-> 1,
                                    afterNot |-> FALSE]>>,
                         pending |-> FALSE]
                   ELSE NothingGiven]
    /\ clog = NoClauseCall

InitShape == InitLive /\ InitMade

NextShape ==
    \/ SQL
    \/ \E cols \in {<<<<"i", "d">>>>} : Select(cols)
    \/ Where("c1")
    \/ \E ascending \in BOOLEAN : OrderBy(<<"i", "d">>, ascending)
    \/ \E value \in {5} : Offset(value)
    \/ \E value \in {10} : Limit(value)
    \/ \E name \in {<<"i", "d">>} : GroupBy(name)
    \/ Having("c1")
    \/ Join(TRUE, "c1")
    \/ Join(FALSE, Item)
    \/ \E t \in Transactions, c \in BOOLEAN : SetTx(t, c)
    \/ Find

SpecShape == InitShape /\ [][NextShape]_vars

(***************************************************************************)
(* Two builders at once: the caller shapes and runs either of them and may *)
(* inject the same Transaction into both.                                  *)
(***************************************************************************)
NextBuilders ==
    \/ Swap
    \/ Where("c1")
    \/ \E value \in {10} : Limit(value)
    \/ \E t \in Transactions, c \in BOOLEAN : SetTx(t, c)
    \/ Find

SpecBuilders == InitShape /\ [][NextBuilders]_vars

(***************************************************************************)
(* One builder replaying its list: a read and a write, each run any number *)
(* of times, before and after the caller injects the Transaction.          *)
(***************************************************************************)
NextReplay ==
    \/ Where("c1")
    \/ \E value \in {10} : Limit(value)
    \/ \E t \in Transactions, c \in BOOLEAN : SetTx(t, c)
    \/ Find
    \/ Update

SpecReplay == InitShape /\ [][NextReplay]_vars

(***************************************************************************)
(* Properties of the scope list.                                           *)
(***************************************************************************)
ShapingOps ==
    {"Select", "Where", "OrderBy", "Offset", "Limit", "GroupBy", "Having", "Join"}

\* the kinds of scope a shaping method records
KindsOf(op) == IF op = "Join" THEN {"Joins", "Preload"} ELSE {op}

\* C11: a shaping method leaves the list one scope longer, the new scope of
\* its own kind at the end, makes no store call and leaves the handle, the
\* commit flag and the savepoint as they were; a builder SQL just made holds
\* no handle.  Checked under SpecShape.
C11_ShapingAppendsOne ==
    /\ last.op \in ShapingOps =>
        /\ Len(scopes) = Len(last.preScopes) + 1
        /\ SubSeq(scopes, 1, Len(last.preScopes)) = last.preScopes
        /\ scopes[Len(scopes)].kind \in KindsOf(last.op)
        /\ calls = <<>>
        /\ tx = last.preTx
        /\ commit = last.preCommit
        /\ savePoint = last.preSavePoint
    /\ last.op = "SQL" => tx = NoTx

\* Join has recorded a qualified join as the second scope of a builder that
\* holds an injected transaction with the commit flag set
C11_Witness ==
    /\ last.op = "Join"
    /\ tx \in Handles
    /\ commit
    /\ Len(scopes) = 2
    /\ scopes[2].kind = "Joins"

\* the operations that neither shape nor replace the builder
KeepingOps == Reads \cup Writes \cup BeginWrites \cup {"SetTx", "IsMany"}

\* C12: a shaping call appends at the end and keeps every earlier entry in
\* place, no other call on the builder changes its list, a terminal call
\* that applies scopes applies the whole list in list order, and nothing
\* done with one builder changes the other builder, its list included.
\* Checked under SpecBuilders.
C12_ScopeListFIFO ==
    /\ [](/\ last.op \in ShapingOps =>
              /\ scopes = Append(last.preScopes, scopes[Len(scopes)])
              /\ Len(scopes) = Len(last.preScopes) + 1
          /\ last.op \in KeepingOps => scopes = last.preScopes
          /\ \A i \in 1..Len(calls) :
                 calls[i].scopes # <<>> =>
                     /\ calls[i].scopes = scopes
                     /\ calls[i].stmt = ApplyScopes(scopes))
    /\ [][last'.op # "Swap" => parked' = parked]_vars

\* both builders hold the same injected transaction and different lists, and
\* the one in hand has just applied its two scopes
C12_Witness ==
    /\ last.op = "Find"
    /\ tx \in Handles
    /\ parked.tx = tx
    /\ Len(scopes) = 2
    /\ scopes[1].kind # scopes[2].kind
    /\ Len(parked.scopes) = 2
    /\ parked.scopes # scopes
    /\ calls[1].scopes = scopes

\* the terminal operations that apply the scope list on every path
Replaying == Reads \cup {"Update"}

C15_FlagMeansDescending ==
    \A i \in 1..Len(calls) :
        \A k \in 1..Len(calls[i].scopes) :
            calls[i].scopes[k].kind = "OrderBy" =>
                calls[i].stmt[k].query =
                    calls[i].scopes[k].name
                        \o (IF calls[i].scopes[k].ascending
                            THEN <<" ", "D", "E", "S", "C", " ">>
                            ELSE <<" ", "A", "S", "C", " ">>)

(***************************************************************************)
(* Clauses that change while they are attached: the caller attaches either *)
(* of its Clauses with Where or Having, goes on adding predicates to them, *)
(* and runs a read.                                                        *)
(***************************************************************************)
NextRender ==
    \/ \E c \in CallerClauses : Where(c)
    \/ \E c \in CallerClauses : Having(c)
    \/ \E c \in CallerClauses, field \in Fields : EQ(c, field, NextValue(c))
    \/ Find

SpecRender == Init /\ [][NextRender]_vars

\* the values of the comparison calls g records for Clause c
ValuesGiven(g, c) == [i \in 1..Len(g[c].cmp) |-> g[c].cmp[i].value]

\* C14: when a read applies the list, the scope of every Where(c) and
\* Having(c) carries one '?' and one value for every predicate c holds by
\* then, those appended after the scope was attached included.  Checked
\* under SpecRender.
C14_RenderedWhenApplied ==
    [][(<<last, calls>>' # <<last, calls>> /\ last'.op \in Reads) =>
          \A k \in 1..Len(calls'[1].scopes) :
              LET s == calls'[1].scopes[k]
                  a == calls'[1].stmt[k]
              IN  /\ s.kind = "Where" =>
                      /\ a.args = ValuesGiven(given', s.arg)
                      /\ CountOf(a.query, "?") = Len(ValuesGiven(given', s.arg))
                  /\ s.kind = "Having" =>
                      /\ Tail(a.query) = ValuesGiven(given', s.arg)
                      /\ CountOf(a.query[1], "?") = Len(ValuesGiven(given', s.arg))]_vars

\* C31: when a read applies the list, the scope of every Where(c) and of
\* every Having(c) is rendered from c, the Clause that very call was given,
\* whatever Clauses were attached to the builder after it.  Checked under
\* SpecRender.
C31_ScopeRendersItsOwnClause ==
    [][(<<last, calls>>' # <<last, calls>> /\ last'.op \in Reads) =>
          \A k \in 1..Len(calls'[1].scopes) :
              LET s == calls'[1].scopes[k]
                  a == calls'[1].stmt[k]
              IN  /\ s.kind = "Where" =>
                      /\ a.query = ClauseToSQL(clauses'[s.arg])[1]
                      /\ a.args = Tail(ClauseToSQL(clauses'[s.arg]))
                  /\ s.kind = "Having" =>
                      a.query = ClauseToSQL(clauses'[s.arg])]_vars

\* C32: the scope recorded by Where never yields the absent handle: every
\* Clause, the empty one included, renders at least the fragment element,
\* so wherever the store was handed a list holding a Where scope, that scope
\* answered with a Where on the handle it was given.  Checked under
\* SpecRender.
C32_WhereScopeNeverNil ==
    /\ \A c \in DOMAIN clauses : Len(ClauseToSQL(clauses[c])) >= 1
    /\ \A i \in 1..Len(calls) :
          \A k \in 1..Len(calls[i].scopes) :
              calls[i].scopes[k].kind = "Where" => calls[i].stmt[k].fn = "Where"

\* A read applied the Where scope of a Clause that was still empty.
C32_Witness ==
    \E i \in 1..Len(calls) :
        \E k \in 1..Len(calls[i].scopes) :
            /\ calls[i].scopes[k].kind = "Where"
            /\ clauses[calls[i].scopes[k].arg] = EmptyClause
            /\ calls[i].stmt[k] = [fn |-> "Where", query |-> <<>>, args |-> <<>>]

(***************************************************************************)
(* Two Clauses built side by side: the caller makes c1 and c2 with         *)
(* new(Clause) and calls comparisons, NOT, AND and OR on either, in any    *)
(* order.                                                                  *)
(***************************************************************************)
NextPair ==
    \/ \E field \in Fields :
           /\ Len(clauses["c1"].builder) < MaxPairPreds
           /\ EQ("c1", field, NextValue("c1"))
    \/ \E field \in Fields :
           /\ Len(clauses["c2"].builder) < MaxPairPreds
           /\ GT("c2", field, 10 + NextValue("c2"))
    \/ \E c \in CallerClauses : NOT(c)
    \/ \E c \in CallerClauses : AND(c)
    \/ \E c \in CallerClauses : OR(c)

SpecPair == Init /\ [][NextPair]_vars

\* C21: a call on one Clause leaves every other Clause as it was: its
\* entries, its pending NOT, and so the fragment and the values it renders.
\* Checked under SpecPair.
C21_ClausesShareNothing ==
    [][\A d \in ClauseIds :
           clog'.c # d =>
               /\ clauses'[d] = clauses[d]
               /\ ClauseToSQL(clauses'[d]) = ClauseToSQL(clauses[d])]_vars

\* both Clauses hold a predicate, c2's with a connective, and the last call
\* appended c1's
C21_Witness ==
    /\ clog.op = "EQ"
    /\ clog.c = "c1"
    /\ Len(clauses["c1"].builder) = 1
    /\ Len(clauses["c2"].builder) = 1
    /\ clauses["c2"].builder[1].nextBoolOP = OROperator
    /\ clauses["c2"].not

\* C27: AND and OR panic exactly when the Clause they are called on holds
\* no predicate, whether it was just made or only NOT was called on it, and
\* then the Clause holds no connective; on a Clause with a predicate they
\* set the connective of its last one.  Checked under SpecPair.
C27_ConnectiveNeedsPredicate ==
    clog.op \in {"AND", "OR"} =>
        LET w == clauses[clog.c]
        IN  IF Len(w.builder) = 0
            THEN clog.panicked
            ELSE /\ ~clog.panicked
                 /\ w.builder[Len(w.builder)].nextBoolOP
                        = (IF clog.op = "AND" THEN ANDOperator ELSE OROperator)

\* OR has panicked on a Clause on which only NOT was called
C27_Witness ==
    /\ clog.op = "OR"
    /\ clog.panicked
    /\ clauses[clog.c].builder = <<>>
    /\ clauses[clog.c].not

(***************************************************************************)
(* The join resolver at work: the caller has built Clause c1 from          *)
(* equalities joined by AND and OR, over bare and table-qualified column   *)
(* names, and declares joins on a builder before and after attaching c1    *)
(* and before and after IsMany().                                          *)
(***************************************************************************)
\* the column names of the join conditions: id, status, Orders.id
JoinKeys ==
    {<<"i", "d">>,
     <<"s", "t", "a", "t", "u", "s">>,
     <<"O", "r", "d", "e", "r", "s", ".", "i", "d">>}

\* the Clause EQ(ks[1], 1).AND().EQ(ks[2], 2)... holds: n equalities, the
\* connective cs[i] called after the i-th of them, none after the last
EqualityClause(n, ks, cs) ==
    [builder |-> [i \in 1..n |->
                     [makeWhereClause(EQOperator, ks[i], i)
                          EXCEPT !.nextBoolOP = IF i < n THEN cs[i] ELSE <<>>]],
     not |-> FALSE]

\* the comparison calls that built it
EqualityCalls(n, ks) ==
    [cmp |-> [i \in 1..n |-> [op |-> "EQ", field |-> ks[i], value |-> i,
                              afterNot |-> FALSE]],
     pending |-> FALSE]

InitJoin ==
    /\ InitBuilder
    /\ \E n \in 0..MaxPreds :
           \E ks \in [1..n -> JoinKeys], cs \in [1..n -> {ANDOperator, OROperator}] :
               /\ clauses = [c \in ClauseIds |->
                                IF c = "c1" THEN EqualityClause(n, ks, cs)
                                ELSE EmptyClause]
               /\ given = [c \in ClauseIds |->
                              IF c = "c1" THEN EqualityCalls(n, ks)
                              ELSE NothingGiven]
    /\ clog = NoClauseCall

NextJoin ==
    \/ IsMany
    \/ Where("c1")
    \/ Join(TRUE, "c1")
    \/ Join(FALSE, Item)

SpecJoin == InitJoin /\ [][NextJoin]_vars

\* the text of a connective in a statement: the operator without the space
\* that ends it
Connective(nextBoolOP) == SubSeq(nextBoolOP, 1, Len(nextBoolOP) - 1)

\* the condition of the first n equalities of builder with every column
\* qualified by table: "<table>.<col> = ?" joined by the connectives
RECURSIVE QualifiedCondition(_, _, _)
QualifiedCondition(table, builder, n) ==
    IF n = 0 THEN <<>>
    ELSE QualifiedCondition(table, builder, n - 1)
             \o (IF n > 1 THEN <<" ">> ELSE <<>>)
             \o table \o <<".">> \o builder[n].key \o <<" ", "=", " ", "?">>
             \o (IF Len(builder[n].nextBoolOP) > 0
                 THEN <<" ">> \o Connective(builder[n].nextBoolOP)
                 ELSE <<>>)

\* every column name of builder is a bare one
BareColumns(builder) ==
    \A i \in 1..Len(builder) : CountOf(builder[i].key, ".") = 0

\* C22: a join recorded for a conjunction of equalities over bare columns
\* has every left-hand column qualified once by the table, placeholders and
\* connectives in their order, and gives the store as many bound arguments
\* as its condition has placeholders.  Checked under SpecJoin.
C22_JoinQualifiesEveryColumn ==
    \A k \in 1..Len(scopes) :
        (scopes[k].kind = "Joins" /\ BareColumns(clauses["c1"].builder)) =>
            /\ scopes[k].stmt =
                   QualifiedCondition(scopes[k].table, clauses["c1"].builder,
                                      Len(clauses["c1"].builder))
            /\ Len(ApplyScope(scopes[k]).args[1].args)
                   = CountOf(scopes[k].stmt, "?")

\* C23: in the condition of a recorded join every left-hand column carries
\* one table qualifier, whether the caller wrote it bare or already as
\* "<table>.<column>": the condition holds one qualifier separator for each
\* of its equalities.  Checked under SpecJoin.
C23_QualifiedOnce ==
    \A k \in 1..Len(scopes) :
        scopes[k].kind = "Joins" =>
            CountOf(scopes[k].stmt, ".") = Len(clauses["c1"].builder)

\* C29: every Join call records exactly one scope, a preload of the
\* resolved table when the Clause of the resolved pair is empty and a
\* qualified join otherwise.  The resolved pair is that of a fresh builder
\* for the entity when Join is given an entity, and the builder's own table
\* and Clause when it is given a Clause.  Checked under SpecJoin.
C29_PreloadIffNoCondition ==
    last.op = "Join" =>
        /\ Len(scopes) = Len(last.preScopes) + 1
        /\ SubSeq(scopes, 1, Len(last.preScopes)) = last.preScopes
        /\ LET s == scopes[Len(scopes)]
               resolved == IF s.table = Item.type THEN EmptyClause
                           ELSE clauses[clause]
           IN  IF Len(resolved.builder) = 0
               THEN s.kind = "Preload"
               ELSE s.kind = "Joins"

\* Join was given a Clause on a builder whose attached Clause is empty, and
\* has recorded a preload after the Where scope
C29_Witness ==
    /\ last.op = "Join"
    /\ clause = "c1"
    /\ clauses["c1"].builder = <<>>
    /\ Len(scopes) = 2
    /\ scopes[1].kind = "Where"
    /\ scopes[2].kind = "Preload"
    /\ scopes[2].table = Order.type

(***************************************************************************)
(* Batch inserts: the caller inserts lists of every length, on a builder   *)
(* without a transaction and on one it injected the live Transaction into. *)
(***************************************************************************)
\* the lists of entities the caller passes: one of every length
BatchLists == {[i \in 1..n |-> i] : n \in 0..MaxBatch}

NextBatch ==
    \/ SQL
    \/ \E t \in Transactions, c \in BOOLEAN : SetTx(t, c)
    \/ \E entities \in BatchLists : InsertBatch(entities)

SpecBatch == InitShape /\ [][NextBatch]_vars

\* C24: InsertBatch makes exactly one store write, a CreateInBatches of the
\* whole list with the batch size equal to the length of the list, on the
\* default handle without a transaction and on the transaction with one.
\* Checked under SpecBatch.
C24_OneBatchOfListLength ==
    last.op = "InsertBatch" =>
        /\ Cardinality(CallsTo(WriteFns)) = 1
        /\ calls[1].fn = "CreateInBatches"
        /\ calls[1].value \in BatchLists
        /\ calls[1].batchSize = Len(calls[1].value)
        /\ calls[1].on = (IF last.preTx = NoTx THEN DefaultDB ELSE last.preTx)

\* a list of two entities was inserted as one batch of two in the injected
\* transaction, and committed
C24_Witness ==
    /\ last.op = "InsertBatch"
    /\ last.preTx \in Handles
    /\ last.ret = Nil
    /\ Len(calls) = 2
    /\ calls[1].batchSize = 2
    /\ Len(calls[1].value) = 2
    /\ calls[2].fn = "Commit"

(***************************************************************************)
(* Raw statements that yield rows: the caller shapes a builder and runs    *)
(* QueryRows on it for statements yielding any number of rows.             *)
(***************************************************************************)
\* what a raw statement can yield: one list of rows of every length
RowLists == {[i \in 1..n |-> i] : n \in 0..MaxRows}

NextRows ==
    \/ SQL
    \/ Where("c1")
    \/ \E value \in {10} : Limit(value)
    \/ \E rows \in RowLists : QueryRows(rows)

SpecRows == InitShape /\ [][NextRows]_vars

\* C25: when QueryRows succeeds, the list it returns holds the rows the
\* store scanned for the statement, in order.  Checked under SpecRows.
C25_ReturnsScannedRows ==
    (last.op = "QueryRows" /\ last.ret = Nil) =>
        last.result = calls[1].rows

(***************************************************************************)
(* Further properties of the transaction manager, checked under Spec.      *)
(***************************************************************************)
\* C26: InsertTx, UpdateTx and DeleteTx begin a transaction on the default
\* handle and write in it, and when they return their Transaction with a
\* nil error the write succeeded and the handle has not been rolled back.
C26_ReturnedHandleIsLive ==
    last.op \in BeginWrites =>
        /\ calls[1].fn = "Begin"
        /\ calls[1].on = DefaultDB
        /\ calls[2].fn \in WriteFns
        /\ calls[2].on = tx
        /\ (last.txret = "self" /\ last.ret = Nil) =>
               /\ calls[2].err = Nil
               /\ handles[tx] # "rolledback"

(***************************************************************************)
(* The toggle-based variants of the builder (src/entity.go, first file     *)
(* body): OrderBy(name) keeps the name and orders by it at once, Ascending *)
(* and Descending order by the kept name with a direction.                 *)
(***************************************************************************)
\* the names the caller passes to OrderBy: none, id, and the bare suffix
OrderNames == {<<>>, <<"i", "d">>, ASCOperator}

\* strings.CutSuffix(str, suffix), its first result
CutSuffix(str, suffix) ==
    IF /\ Len(str) >= Len(suffix)
       /\ SubSeq(str, Len(str) - Len(suffix) + 1, Len(str)) = suffix
    THEN SubSeq(str, 1, Len(str) - Len(suffix))
    ELSE str

\* what a call on the toggle-based builder leaves behind
Ordered(op, panicked, after) ==
    /\ eager' = after
    /\ calls' = <<>>
    /\ last' = Done(op, Nil, "none", panicked)
    /\ UNCHANGED <<scopes, tx, commit, savePoint, error, handles, own, held,
                   clause, hasMany, parked, cvars>>

\* OrderBy(name): keep the name, Order(name)
OrderByName(name) ==
    /\ Len(eager.order) < MaxOrders
    /\ Ordered("OrderBy(name)", FALSE,
               [orderBy |-> name, order |-> Append(eager.order, name),
                named |-> eager.named \/ Len(name) > 0])

\* a direction toggle with no guard on the kept name
Toggle_Unguarded(op, cut, direction) ==
    /\ Len(eager.order) < MaxOrders
    /\ LET name == IF cut THEN CutSuffix(eager.orderBy, ASCOperator)
                   ELSE eager.orderBy
       IN  Ordered(op, FALSE,
                   [eager EXCEPT !.orderBy = name,
                                 !.order = Append(@, name \o direction)])

\* Ascending() / Descending(): panic when the kept name is empty; else
\* (Descending only) cut the suffix " ASC" off the kept name, and
\* Order(name + direction)
Toggle(op, cut, direction) ==
    IF Len(eager.orderBy) = 0
    THEN Ordered(op, TRUE, eager)
    ELSE /\ Len(eager.order) < MaxOrders
         /\ LET name == IF cut THEN CutSuffix(eager.orderBy, ASCOperator)
                        ELSE eager.orderBy
            IN  Ordered(op, FALSE,
                        [eager EXCEPT !.orderBy = name,
                                      !.order = Append(@, name \o direction)])

Ascending == Toggle("Ascending", FALSE, ASCOperator)

Descending == Toggle("Descending", TRUE, DESCOperator)

NextToggle ==
    \/ \E name \in OrderNames : OrderByName(name)
    \/ Ascending
    \/ Descending

SpecToggle == Init /\ [][NextToggle]_vars

Toggles == {"Ascending", "Descending"}

\* C28 as stated: Ascending and Descending panic and order nothing when no
\* OrderBy with a non-empty name has been called on the builder, and do not
\* panic once one has.  Checked under SpecToggle.
C28_TogglePanicsBeforeOrderBy ==
    [][last'.op \in Toggles =>
           /\ ~eager.named => (last'.panicked /\ eager'.order = eager.order)
           /\ eager.named => ~last'.panicked]_vars

\* C28, amended: Ascending and Descending panic and order nothing exactly
\* when the name the builder keeps is empty, which it is as long as no
\* OrderBy with a non-empty name has been called; with a name kept they do
\* not panic and make one Order call.  Checked under SpecToggle.
C28_TogglePanicsOnEmptyName ==
    /\ [](~eager.named => Len(eager.orderBy) = 0)
    /\ [][last'.op \in Toggles =>
              IF Len(eager.orderBy) = 0
              THEN last'.panicked /\ eager' = eager
              ELSE /\ ~last'.panicked
                   /\ Len(eager'.order) = Len(eager.order) + 1]_vars

\* Ascending has panicked on a builder on which OrderBy("id") and then
\* OrderBy("") were called
C28_Witness ==
    /\ last.op = "Ascending"
    /\ last.panicked
    /\ eager.named
    /\ eager.order = <<<<"i", "d">>, <<>>>>

\* C30: the savepoint name of every builder is empty in every reachable
\* state, every rollback the manager makes is a full Rollback, and no
\* RollbackTo is ever issued.
C30_NoSavePoint ==
    /\ savePoint = ""
    /\ parked.savePoint = ""
    /\ last.preSavePoint = ""
    /\ CallsTo({"RollbackTo"}) = {}

\* a write on an injected transaction has failed and was rolled back in full
C30_Witness ==
    /\ WroteInTx
    /\ last.preTx \in held
    /\ calls[1].err # Nil
    /\ calls[2].fn = "Rollback"
    /\ savePoint = ""

(***************************************************************************)
(* Join given a Clause other than the one attached to the builder: c1 is   *)
(* the argument of every Join, c2 the Clause Where and Having attach.      *)
(***************************************************************************)
NextArg ==
    \/ IsMany
    \/ \E field \in Fields :
           /\ Len(clauses["c2"].builder) < MaxPairPreds
           /\ GT("c2", field, 10 + NextValue("c2"))
    \/ Where("c2")
    \/ Having("c2")
    \/ Join(TRUE, "c1")

SpecArg == InitJoin /\ [][NextArg]_vars

\* C33: Join given a non-empty Clause records a qualified join whose
\* condition and bound values come from that Clause, whichever Clause Where
\* or Having attached to the builder before (or none).  Checked under
\* SpecArg, where c1 is the argument of every Join.
C33_JoinUsesItsArgument ==
    (last.op = "Join" /\ clauses["c1"].builder # <<>>) =>
        LET s == scopes[Len(scopes)]
            args == ClauseToSQL(clauses["c1"])
        IN  /\ s.kind = "Joins"
            /\ s.stmt = JoinStmt(s.table, args[1])
            /\ s.vals = Tail(args)

(***************************************************************************)
(* Join conditions over every comparison operator: c1 holds up to MaxPreds *)
(* comparisons of the column id, each made by one of the eight comparison  *)
(* constructors, joined by connectives; Where attaches it and Join         *)
(* resolves it.                                                            *)
(***************************************************************************)
Comparisons == {"EQ", "GT", "GTE", "LT", "LTE", "IN", "Like", "Between"}

\* the operator each comparison constructor hands to makeWhereClause
OperatorText(op) ==
    CASE op = "EQ" -> EQOperator
      [] op = "GT" -> GTOperator
      [] op = "GTE" -> GTEOperator
      [] op = "LT" -> LTOperator
      [] op = "LTE" -> LTEOperator
      [] op = "IN" -> INOperator
      [] op = "Like" -> LikeOperator
      [] op = "Between" -> BetWeen

\* the value the i-th comparison is given: a list for IN, a number otherwise
ValueOf(op, i) == IF op = "IN" THEN <<10 * i + 1, 10 * i + 2>> ELSE i

\* the Clause ops[1](id, 1).cs[1]().ops[2](id, 2)... holds
ComparisonClause(n, ops, cs) ==
    [builder |-> [i \in 1..n |->
                     [makeWhereClause(OperatorText(ops[i]), <<"i", "d">>,
                                      ValueOf(ops[i], i))
                          EXCEPT !.nextBoolOP = IF i < n THEN cs[i] ELSE <<>>]],
     not |-> FALSE]

\* the comparison calls that built it
ComparisonCalls(n, ops) ==
    [cmp |-> [i \in 1..n |-> [op |-> ops[i], field |-> <<"i", "d">>,
                              value |-> ValueOf(ops[i], i), afterNot |-> FALSE]],
     pending |-> FALSE]

InitResolve ==
    /\ InitBuilder
    /\ \E n \in 0..MaxPreds :
           \E ops \in [1..n -> Comparisons], cs \in [1..n -> {ANDOperator, OROperator}] :
               /\ clauses = [c \in ClauseIds |->
                                IF c = "c1" THEN ComparisonClause(n, ops, cs)
                                ELSE EmptyClause]
               /\ given = [c \in ClauseIds |->
                              IF c = "c1" THEN ComparisonCalls(n, ops)
                              ELSE NothingGiven]
    /\ clog = NoClauseCall

NextResolve ==
    \/ Where("c1")
    \/ Join(TRUE, "c1")

SpecResolve == InitResolve /\ [][NextResolve]_vars

\* the words of a statement: its pieces between single spaces
Tokens(str) == Split(str, <<" ">>)

\* the comparison operators among the words, in their order
OperatorsIn(words) ==
    SelectSeq(words, LAMBDA word : \E op \in Comparisons : word = OperatorOf(op))

\* the words that start with prefix, without it
Prefixed(words, prefix) ==
    {SubSeq(words[j], Len(prefix) + 1, Len(words[j])) :
        j \in {i \in 1..Len(words) :
                  /\ Len(words[i]) >= Len(prefix)
                  /\ SubSeq(words[i], 1, Len(prefix)) = prefix}}

\* C34: in a join condition resolved from a Clause of comparisons (any of
\* EQ, GT, GTE, LT, LTE, LIKE, BETWEEN, IN) the only words that got the
\* "<table>." prefix are column names, and the condition has the
\* placeholders and the comparison operators of the Clause's fragment, in
\* the same order; no operator or keyword is qualified.  Checked under
\* SpecResolve, where c1 is the Clause every join is resolved from.
C34_OnlyColumnsQualified ==
    \A k \in 1..Len(scopes) :
        scopes[k].kind = "Joins" =>
            LET builder == clauses["c1"].builder
                fragment == ClauseToSQL(clauses["c1"])[1]
                stmt == scopes[k].stmt
            IN  /\ Prefixed(Tokens(stmt), scopes[k].table \o <<".">>)
                       \subseteq {builder[i].key : i \in 1..Len(builder)}
                /\ OperatorsIn(Tokens(stmt)) = OperatorsIn(Tokens(fragment))
                /\ CountOf(stmt, "?") = CountOf(fragment, "?")

====
